---- MODULE Spec2Model ----
(***************************************************************************)
(* CT reconstruction of a 2x2 phantom: ART versus a simulated HHL circuit  *)
(* (HHL-Medical-imaging.ipynb).                                            *)
(*                                                                         *)
(* The notebook is modelled cell by cell.  Each component has its own      *)
(* specification over the shared variables:                                *)
(*   SpecART      projection-matrix cell and the ART solver cell           *)
(*   Spec         the notebook as written, cell by cell                    *)
(*   SpecQFT      qft then qft_dg, simulated on the clock register         *)
(*   SpecRot      the eigenvalue-inversion loop on clock basis states      *)
(*   SpecQPE      qpe then inv_qpe, simulated on clock basis states        *)
(*   SpecExtract  the postselect cell on basis states                      *)
(***************************************************************************)
EXTENDS Integers, Sequences, FiniteSets, TLC

VARIABLES
    pc,            \* position in the notebook / in the function being run
    phantom2,      \* the 2x2 phantom, flattened row-major (1..4)
    angles,        \* the projection angles (degrees) of the projection cell
    A4, b4,        \* projection matrix (4 rows of 4 hits) and measurements
    x_art,         \* ART iterate: 4 rationals <<num, den>>
    sweep, row,    \* ART loop counters (for _ in range(iters), for i in range(4))
    art_recon,     \* x_art.reshape(2, 2)
    A_herm,        \* A4.T @ A4 + np.eye(4)
    b_herm,        \* A4.T @ b4
    b_norm,        \* b_herm / norm(b_herm): v / sqrt(n2), or four NaN
    lam_max,       \* max(np.linalg.eigvals(A_herm).real); t0 = 2*pi / lam_max
    U_ops,         \* U_ops[k] as the power of U = expm(1j*A_herm*t0) it is
    expmA,         \* U by the eigenprojectors of A_herm, see BuildExpm
    phase_to_lambda, \* the table of hhl: a sequence of <<pat, lam>>
    qc,            \* the circuit: the sequence of instructions appended so far
    stage_log,     \* history: the stages of the pipeline run so far, in order
    qc_nom,        \* qc.remove_final_measurements(inplace=False)
    err,           \* the exception that ended the run, or Idle
    psi,           \* simulated state, see "Statevector simulation"
    hcnt,          \* number of Hadamards applied (psi is scaled by 2^(hcnt/2))
    rdiv,          \* product of the lam of the rotations applied (psi is scaled by it)
    sysreg,        \* content of the system register: "zero" or "b_norm"
    ip,            \* number of instructions of qc_nom already simulated
    clk_in,        \* the clock basis state a run starts from
    clkval,        \* rotation stage on a basis state: the clock value now
    fired,         \* ... and the lam of every mcry that acted on the ancilla
    state,         \* state.data: 256 amplitudes (up to a positive scale)
    sys_amps,      \* tensor[1].sum(axis=(0,1,2,3,4)): 2x2
    vec,           \* sys_amps.flatten(), then normalised and rescaled
    hhl_recon      \* np.real(vec[[3,1,2,0]].reshape(2,2))

vProj == <<phantom2, angles, A4, b4>>
vArt  == <<x_art, sweep, row, art_recon>>
vSetup == <<A_herm, b_herm, b_norm, lam_max, U_ops, expmA>>
vCirc == <<phase_to_lambda, qc, stage_log, qc_nom, err>>
vSim  == <<psi, hcnt, rdiv, sysreg, ip, clk_in>>
vRot  == <<clkval, fired>>
vExt  == <<state, sys_amps, vec, hhl_recon>>
vars  == <<pc, vProj, vArt, vSetup, vCirc, vSim, vRot, vExt>>

\* frames: what the actions of one component leave alone
vNotArt == <<vSetup, vCirc, vSim, vRot, vExt>>

Idle == "-"

\* the variables a specification does not use stay at these values
IdleProj == phantom2 = Idle /\ angles = Idle /\ A4 = Idle /\ b4 = Idle
IdleArt  == x_art = Idle /\ sweep = 0 /\ row = 0 /\ art_recon = Idle
NoBNorm   == [set |-> FALSE, nan |-> FALSE, v |-> <<>>, n2 |-> 0]
IdleSetup == A_herm = Idle /\ b_herm = Idle /\ b_norm = NoBNorm /\ lam_max = 0
               /\ U_ops = <<>> /\ expmA = <<>>
IdleCirc == qc = <<>> /\ stage_log = <<>> /\ qc_nom = <<>> /\ err = Idle
IdleRot  == clkval = 0 /\ fired = <<>>
NoRecon  == [set |-> FALSE, val |-> <<>>]
IdleExt  == state = Idle /\ sys_amps = Idle /\ vec = Idle
               /\ hhl_recon = NoRecon
IdleSim  == psi = Idle /\ hcnt = 0 /\ rdiv = 1 /\ sysreg = Idle /\ ip = 0 /\ clk_in = Idle
IdleNotArt == IdleSetup /\ IdleCirc /\ IdleSim /\ IdleRot /\ IdleExt
               /\ phase_to_lambda = Idle

(***************************************************************************)
(* Bounds of the model.                                                    *)
(***************************************************************************)
MaxPix == 2            \* phantoms range over pixel values 0..MaxPix

(***************************************************************************)
(* Integer and rational helpers.  A rational is <<num, den>> with den > 0  *)
(* and gcd(num, den) = 1; the floats of the notebook are dyadic in every   *)
(* scenario drawn here, so the rational value is the float value.          *)
(***************************************************************************)
Abs(n) == IF n < 0 THEN -n ELSE n

RECURSIVE GCD(_, _)
GCD(a, b) == IF b = 0 THEN a ELSE GCD(b, a % b)

RNorm(n, d) ==
    LET s == IF d < 0 THEN -1 ELSE 1
        g == GCD(Abs(n), Abs(d))
    IN  <<(s * n) \div g, (s * d) \div g>>

RInt(n)       == <<n, 1>>
RAdd(p, q)    == RNorm(p[1] * q[2] + q[1] * p[2], p[2] * q[2])
RSub(p, q)    == RNorm(p[1] * q[2] - q[1] * p[2], p[2] * q[2])
RMul(p, q)    == RNorm(p[1] * q[1], p[2] * q[2])
RDivInt(p, n) == RNorm(p[1], p[2] * n)
RAbs(p)       == <<Abs(p[1]), p[2]>>
RLess(p, q)   == p[1] * q[2] < q[1] * p[2]

Pix == 1..4

(***************************************************************************)
(* Projection-matrix cell.                                                 *)
(***************************************************************************)
\* coords, in half-pixel units (the source holds -0.5 / 0.5)
coords == << <<-1, -1>>, <<1, -1>>, <<-1, 1>>, <<1, 1>> >>

\* math.cos / math.sin of math.radians(phi_deg), in units of 10^-7.
\* cos(radians(90)) is 6.1e-17 in floating point, 0 at this resolution.
TrigScale == 10^7
CosFx(deg) == CASE deg = 0  -> TrigScale
                [] deg = 45 -> 7071068
                [] deg = 90 -> 0
SinFx(deg) == CASE deg = 0  -> 0
                [] deg = 45 -> 7071068
                [] deg = 90 -> TrigScale

\* hit = float(abs(d - (x*cos(phi) + y*sin(phi))) < 1e-6), d = det - 0.5;
\* both sides doubled and scaled by TrigScale.
Hit(deg, det, pix) ==
    LET d2   == (2 * det - 1) * TrigScale
        proj == coords[pix][1] * CosFx(deg) + coords[pix][2] * SinFx(deg)
    IN  IF Abs(d2 - proj) < 2 * (TrigScale \div 10^6) THEN 1 ELSE 0

\* rows are appended for phi_deg in the angle list, det in range(2)
ProjRow(deg, det) == [pix \in Pix |-> Hit(deg, det, pix)]
ProjVal(deg, det, ph) ==
    LET h == ProjRow(deg, det)
    IN  h[1] * ph[1] + h[2] * ph[2] + h[3] * ph[3] + h[4] * ph[4]

BuildA4(angs) ==
    [i \in 1..4 |-> ProjRow(angs[((i - 1) \div 2) + 1], (i - 1) % 2)]
Buildb4(angs, ph) ==
    [i \in 1..4 |-> ProjVal(angs[((i - 1) \div 2) + 1], (i - 1) % 2, ph)]

RefPhantom == <<1, 2, 3, 4>>
RefAngles  == <<0, 90>>

Phantoms   == {RefPhantom} \cup [Pix -> 0..MaxPix]
AngleLists == {RefAngles, <<0, 45>>, <<90, 0>>}

ProjectionCell ==
    /\ pc = "projection"
    /\ A4' = BuildA4(angles)
    /\ b4' = Buildb4(angles, phantom2)
    /\ pc' = "art"
    /\ UNCHANGED <<phantom2, angles, vArt, vNotArt>>

(***************************************************************************)
(* ART solver cell.                                                        *)
(***************************************************************************)
iters == 10
relax == <<1, 1>>

DotII(a, b) == a[1] * b[1] + a[2] * b[2] + a[3] * b[3] + a[4] * b[4]
DotIR(a, x) ==
    RAdd(RAdd(RMul(RInt(a[1]), x[1]), RMul(RInt(a[2]), x[2])),
         RAdd(RMul(RInt(a[3]), x[3]), RMul(RInt(a[4]), x[4])))

\* r = b4[i] - ai.dot(x_art)
ResidualNoSubtract(ai, bi, x) == RInt(bi)
Residual(ai, bi, x) == RSub(RInt(bi), DotIR(ai, x))

\* x_art += relax * (r / n2) * ai
RowUpdateNoNorm(x, ai, r, n2) ==
    [j \in Pix |-> RAdd(x[j], RMul(RMul(relax, r), RInt(ai[j])))]
RowUpdate(x, ai, r, n2) ==
    [j \in Pix |-> RAdd(x[j], RMul(RMul(relax, RDivInt(r, n2)), RInt(ai[j])))]

\* body of `for i in range(4)`, i counted from 0
ArtStep(x, i, A, b) ==
    LET ai == A[i + 1]
        n2 == DotII(ai, ai)
    IN  IF n2 > 0 THEN RowUpdate(x, ai, Residual(ai, b[i + 1], x), n2) ELSE x

ArtStart ==
    /\ pc = "art"
    /\ x_art' = [j \in Pix |-> RInt(0)]
    /\ sweep' = 0
    /\ row' = 0
    /\ pc' = "art_loop"
    /\ UNCHANGED <<vProj, art_recon, vNotArt>>

ArtRow ==
    /\ pc = "art_loop"
    /\ sweep < iters
    /\ x_art' = ArtStep(x_art, row, A4, b4)
    /\ IF row = 3 THEN row' = 0 /\ sweep' = sweep + 1
                  ELSE row' = row + 1 /\ sweep' = sweep
    /\ UNCHANGED <<pc, vProj, art_recon, vNotArt>>

ArtFinish ==
    /\ pc = "art_loop"
    /\ sweep = iters
    /\ art_recon' = << <<x_art[1], x_art[2]>>, <<x_art[3], x_art[4]>> >>
    /\ pc' = "art_done"
    /\ UNCHANGED <<vProj, x_art, sweep, row, vNotArt>>

InitART ==
    /\ pc = "projection"
    /\ phantom2 \in Phantoms
    /\ angles \in AngleLists
    /\ A4 = Idle /\ b4 = Idle
    /\ x_art = Idle /\ sweep = 0 /\ row = 0 /\ art_recon = Idle
    /\ IdleNotArt

NextART == ProjectionCell \/ ArtStart \/ ArtRow \/ ArtFinish

SpecART == InitART /\ [][NextART]_vars

(***************************************************************************)
(* Register layout: qc = QuantumCircuit(anc, clk, sysq, creg).  Qubits are *)
(* numbered in the order the registers are given: anc is qubit 0, clk[i]   *)
(* qubit 1 + i, sysq[i] qubit 6 + i.                                       *)
(***************************************************************************)
NClk == 5
NSys == 2

anc(i)  == i
clk(i)  == 1 + i
sysq(i) == 1 + NClk + i
creg(i) == i

ClockDim == 2^NClk
ClockVals == 0..(ClockDim - 1)

(***************************************************************************)
(* Instructions.  Every instruction is a record with the same fields:      *)
(*   g  the operation; a, b  qubits (b a classical bit for "measure");     *)
(*   m  the parameter; l  the label of a barrier.                          *)
(* The parameter of "cp" is its angle in units of pi / 2^(NClk-1) (pi/16), *)
(* of "cu" the power p of U = expm(1j * A_herm * t0) the operator applies  *)
(* (U_ops[k] is U^(2^k), its inverse U^(-2^k)), of "mcry" the eigenvalue   *)
(* lam of theta = 2 * asin(1/lam).                                         *)
(***************************************************************************)
Ins(g, a, b, m, l) == [g |-> g, a |-> a, b |-> b, m |-> m, l |-> l]

Barrier(l)     == Ins("barrier", 0, 0, 0, l)
H(q)           == Ins("h", q, q, 0, "")
Swap(q1, q2)   == Ins("swap", q1, q2, 0, "")
CP(m, q1, q2)  == Ins("cp", q1, q2, m, "")
CU(p, q)       == Ins("cu", q, q, p, "")
X(q)           == Ins("x", q, q, 0, "")
MCRY(lam, q)   == Ins("mcry", q, q, lam, "")
Initialize     == Ins("initialize", sysq(0), sysq(NSys - 1), 0, "")
Measure(q, c)  == Ins("measure", q, c, 0, "")

RECURSIVE Flatten(_)
Flatten(ss) == IF ss = <<>> THEN <<>> ELSE Head(ss) \o Flatten(Tail(ss))

Reverse(s) == [i \in 1..Len(s) |-> s[Len(s) + 1 - i]]

\* pi / 2**n in units of pi / 2^(NClk-1)
PiOver2Pow(n) == 2^(NClk - 1) \div 2^n

\* for i in range(5 // 2): circ.swap(clk[i], clk[4 - i])
BitReversalSwaps ==
    [i \in 1..(NClk \div 2) |-> Swap(clk(i - 1), clk(NClk - 1 - (i - 1)))]

\* circ.h(clk[j]); for k in range(j+1, 5): circ.cp(pi / 2**(k-j), clk[k], clk[j])
QftBlock(j) ==
    <<H(clk(j))>> \o
    [n \in 1..(NClk - 1 - j) |-> CP(PiOver2Pow(n), clk(j + n), clk(j))]

\* for k in reversed(range(j+1, 5)): circ.cp(-pi / 2**(k-j), clk[k], clk[j])
\* circ.h(clk[j])
QftDgBlockNoNegate(j) ==
    [n \in 1..(NClk - 1 - j) |->
        CP(PiOver2Pow(NClk - j - n), clk(NClk - n), clk(j))]
    \o <<H(clk(j))>>
QftDgBlock(j) ==
    [n \in 1..(NClk - 1 - j) |->
        CP(-PiOver2Pow(NClk - j - n), clk(NClk - n), clk(j))]
    \o <<H(clk(j))>>

\* def qft(circ)
qft ==
       <<Barrier("QFT-start")>>
    \o BitReversalSwaps
    \o Flatten([j \in 1..NClk |-> QftBlock(j - 1)])
    \o <<Barrier("QFT-end")>>

\* def qft_dg(circ)
qft_dgNoNegate ==
       <<Barrier("iQFT-start")>>
    \o Flatten([j \in 1..NClk |-> QftDgBlockNoNegate(NClk - j)])
    \o BitReversalSwaps
    \o <<Barrier("iQFT-end")>>
qft_dg ==
       <<Barrier("iQFT-start")>>
    \o Flatten([j \in 1..NClk |-> QftDgBlock(NClk - j)])
    \o BitReversalSwaps
    \o <<Barrier("iQFT-end")>>

(***************************************************************************)
(* Statevector simulation, exact.                                          *)
(*                                                                         *)
(* Amplitudes live in Z[w, sqrt(3)], w = exp(i*pi/16) a primitive 32nd     *)
(* root of unity: an amplitude is its 32 integer coordinates on            *)
(* 1, w, ..., w^15 (w^16 = -1) and sqrt(3), sqrt(3)*w, ..., sqrt(3)*w^15,  *)
(* which are unique.  A Hadamard is applied as [[1,1],[1,-1]] and counted  *)
(* in hcnt; the rotation of mcry(2*asin(1/lam)) is applied as              *)
(* [[sqrt(lam^2-1), -1], [1, sqrt(lam^2-1)]] on the branch it acts on and  *)
(* as lam on the others, and lam is multiplied into rdiv: the state is     *)
(* psi / (2^(hcnt/2) * rdiv).                                              *)
(*                                                                         *)
(* The ancilla and the clock register are simulated in full; the system    *)
(* register holds U^e applied to the initialised vector,                   *)
(* U = expm(1j * A_herm * t0), and psi maps each pair <<a, e>> that occurs *)
(* to the clock amplitudes that go with it: psi[<<a, e>>][c] is the        *)
(* amplitude of |a> (x) |c> (x) U^e |b_norm>.                              *)
(***************************************************************************)
NW == 2^(NClk - 1)
WIdx == 0..(NW - 1)
AIdx == 0..(2 * NW - 1)

AZero      == [i \in AIdx |-> 0]
AInt(n)    == [i \in AIdx |-> IF i = 0 THEN n ELSE 0]
AAdd(x, y) == [i \in AIdx |-> x[i] + y[i]]
ASub(x, y) == [i \in AIdx |-> x[i] - y[i]]
AScale(x, n) == [i \in AIdx |-> n * x[i]]
\* x * w^m
AMulW(x, m) ==
    [i \in AIdx |->
        LET h == (i \div NW) * NW
            t == ((i % NW) - m) % (2 * NW)
        IN  IF t < NW THEN x[h + t] ELSE -x[h + t - NW]]
\* x * sqrt(2), sqrt(2) = w^4 + w^(-4) = w^4 - w^12
AMulSqrt2(x) == ASub(AMulW(x, NW \div 4), AMulW(x, 3 * (NW \div 4)))
\* x * sqrt(3)
AMulSqrt3(x) == [i \in AIdx |-> IF i < NW THEN 3 * x[i + NW] ELSE x[i - NW]]
\* x * sqrt(n), for n = k^2 * m with m one of 0, 1, 2, 3, 6
AMulSqrt(x, n) ==
    IF n = 0 THEN AZero
    ELSE LET k == CHOOSE d \in 1..n :
                      /\ n % (d * d) = 0
                      /\ \A d2 \in (d + 1)..n : n % (d2 * d2) # 0
             m == n \div (k * k)
         IN  CASE m = 1 -> AScale(x, k)
               [] m = 2 -> AScale(AMulSqrt2(x), k)
               [] m = 3 -> AScale(AMulSqrt3(x), k)
               [] m = 6 -> AScale(AMulSqrt3(AMulSqrt2(x)), k)

Bit(c, i)     == (c \div 2^i) % 2
FlipBit(c, i) == IF Bit(c, i) = 0 THEN c + 2^i ELSE c - 2^i
SwapBits(c, i, j) ==
    IF Bit(c, i) = Bit(c, j) THEN c ELSE FlipBit(FlipBit(c, i), j)

ZeroSlice == [c \in ClockVals |-> AZero]
Basis(c0) == [c \in ClockVals |-> IF c = c0 THEN AInt(1) ELSE AZero]
\* |0> (x) |c0> (x) U^0 |sys>
StartState(c0) == [k \in {<<0, 0>>} |-> Basis(c0)]

\* the gates on clock qubits, on one slice f; i, j are indices into clk
GateH(f, i) ==
    [c \in ClockVals |->
        IF Bit(c, i) = 0 THEN AAdd(f[c], f[c + 2^i])
                         ELSE ASub(f[c - 2^i], f[c])]
GateSwap(f, i, j) == [c \in ClockVals |-> f[SwapBits(c, i, j)]]
GateCP(f, m, i, j) ==
    [c \in ClockVals |->
        IF Bit(c, i) = 1 /\ Bit(c, j) = 1 THEN AMulW(f[c], m) ELSE f[c]]
GateX(f, i) == [c \in ClockVals |-> f[FlipBit(c, i)]]

SliceAt(s, k) == IF k \in DOMAIN s THEN s[k] ELSE ZeroSlice
Pruned(t) == [k \in {k2 \in DOMAIN t : t[k2] # ZeroSlice} |-> t[k]]

\* The eigenvalues of A_herm are integers, so U^lam_max =
\* expm(2j*pi*A_herm) is the identity: exponents of U count modulo lam_max.
UExp(e) == IF lam_max > 0 THEN e % lam_max ELSE e

\* U^p on the system register, controlled on clk[k]
GateCU(s, p, k) ==
    LET D  == DOMAIN s
        D2 == D \cup {<<d[1], UExp(d[2] + p)>> : d \in D}
    IN  Pruned([d \in D2 |->
                  [c \in ClockVals |->
                      IF Bit(c, k) = 1
                      THEN SliceAt(s, <<d[1], UExp(d[2] - p)>>)[c]
                      ELSE SliceAt(s, d)[c]]])

\* mcry(2*asin(1/lam), clk, anc[0]): RY(theta) = [[cos(theta/2), -sin(theta/2)],
\* [sin(theta/2), cos(theta/2)]] on the ancilla where every clock qubit is 1,
\* with sin(theta/2) = 1/lam and cos(theta/2) = sqrt(lam^2 - 1)/lam; all
\* amplitudes are multiplied by lam
GateMCRY(s, lam) ==
    LET E == {d[2] : d \in DOMAIN s}
        Cos(x) == AMulSqrt(x, lam * lam - 1)
    IN  Pruned([d \in {0, 1} \X E |->
                  LET s0 == SliceAt(s, <<0, d[2]>>)
                      s1 == SliceAt(s, <<1, d[2]>>)
                  IN  [c \in ClockVals |->
                          IF c = ClockDim - 1
                          THEN (IF d[1] = 0 THEN ASub(Cos(s0[c]), s1[c])
                                            ELSE AAdd(s0[c], Cos(s1[c])))
                          ELSE AScale(SliceAt(s, d)[c], lam)]])

OnSlices(s, G(_)) == [d \in DOMAIN s |-> G(s[d])]

\* one instruction applied to the state
ApplyIns(s, ins) ==
    CASE ins.g = "h"    -> OnSlices(s, LAMBDA f : GateH(f, ins.a - clk(0)))
      [] ins.g = "swap" ->
            OnSlices(s, LAMBDA f : GateSwap(f, ins.a - clk(0), ins.b - clk(0)))
      [] ins.g = "cp"   ->
            OnSlices(s, LAMBDA f : GateCP(f, ins.m, ins.a - clk(0), ins.b - clk(0)))
      [] ins.g = "x"    -> OnSlices(s, LAMBDA f : GateX(f, ins.a - clk(0)))
      [] ins.g = "cu"   -> GateCU(s, ins.m, ins.a - clk(0))
      [] ins.g = "mcry" -> GateMCRY(s, ins.m)
      [] ins.g \in {"barrier", "initialize"} -> s

\* Statevector.from_instruction: one instruction of qc_nom at a time
SimStep ==
    /\ pc = "simulate"
    /\ ip < Len(qc_nom)
    /\ LET ins == qc_nom[ip + 1]
       IN  /\ psi' = ApplyIns(psi, ins)
           /\ hcnt' = IF ins.g = "h" THEN hcnt + 1 ELSE hcnt
           /\ rdiv' = IF ins.g = "mcry" THEN rdiv * ins.m ELSE rdiv
           /\ sysreg' = IF ins.g = "initialize" THEN "b_norm" ELSE sysreg
    /\ ip' = ip + 1
    /\ UNCHANGED <<pc, vProj, vArt, vSetup, vCirc, clk_in, vRot, vExt>>

(***************************************************************************)
(* SpecQFT: qft(circ) then qft_dg(circ) on a fresh circuit, simulated from *)
(* every basis state of the clock register.                                *)
(***************************************************************************)
RemoveFinalMeasurements(circ) ==
    LET final(n) == \A k \in n..Len(circ) : circ[k].g \in {"measure", "barrier"}
        cut == CHOOSE n \in 1..(Len(circ) + 1) :
                   /\ final(n)
                   /\ \A k \in 1..(n - 1) : ~final(k)
    IN  SubSeq(circ, 1, cut - 1)

AppendQft ==
    /\ pc = "call_qft"
    /\ qc' = qc \o qft
    /\ pc' = "call_qft_dg"
    /\ UNCHANGED <<vProj, vArt, vSetup, phase_to_lambda, stage_log, qc_nom, err,
                   vSim, vRot, vExt>>

AppendQftDg ==
    /\ pc = "call_qft_dg"
    /\ qc' = qc \o qft_dg
    /\ qc_nom' = RemoveFinalMeasurements(qc')
    /\ pc' = "simulate"
    /\ UNCHANGED <<vProj, vArt, vSetup, phase_to_lambda, stage_log, err,
                   vSim, vRot, vExt>>

SimDone ==
    /\ pc = "simulate"
    /\ ip = Len(qc_nom)
    /\ pc' = "simulated"
    /\ UNCHANGED <<vProj, vArt, vSetup, vCirc, vSim, vRot, vExt>>

InitQFT ==
    /\ pc = "call_qft"
    /\ IdleProj /\ IdleArt /\ IdleSetup /\ IdleCirc /\ IdleRot /\ IdleExt
    /\ phase_to_lambda = Idle
    /\ clk_in \in ClockVals
    /\ psi = StartState(clk_in)
    /\ hcnt = 0 /\ rdiv = 1 /\ ip = 0 /\ sysreg = "zero"

NextQFT == AppendQft \/ AppendQftDg \/ SimStep \/ SimDone

SpecQFT == InitQFT /\ [][NextQFT]_vars

(***************************************************************************)
(* QPE and inverse QPE.                                                    *)
(***************************************************************************)
\* U_ops = [Operator(expm(1j * A_herm * (2**k) * t0)) ... for k in range(5)]:
\* U_ops[k] = U^(2^k), U = expm(1j * A_herm * t0)
BuildU_ops == [k \in 0..(NClk - 1) |-> 2^k]

\* def qpe(circ)
qpe(U) ==
       <<Barrier("QPE-start")>>
    \o [i \in 1..NClk |-> H(clk(i - 1))]
    \o <<Barrier("QPE-H")>>
    \o [i \in 1..NClk |-> CU(U[i - 1], clk(i - 1))]
    \o <<Barrier("QPE-U")>>
    \o qft_dg
    \o <<Barrier("QPE-end")>>

\* def inv_qpe(circ); U_ops[k].inverse() is U^(-2^k)
inv_qpe(U) ==
       <<Barrier("InvQPE-start")>>
    \o qft
    \o [i \in 1..NClk |-> CU(-U[NClk - i], clk(NClk - i))]
    \o <<Barrier("InvQPE-end")>>

(***************************************************************************)
(* hhl: the eigenvalue-inversion loop.                                     *)
(***************************************************************************)
\* phase_to_lambda = {0b00110:1, 0b10011:3, 0b00000:5}, in insertion order
DefaultTable == << <<6, 1>>, <<19, 3>>, <<0, 5>> >>

RECURSIVE BinDigits(_)
BinDigits(n) == IF n < 2 THEN <<n>> ELSE BinDigits(n \div 2) \o <<n % 2>>

\* format(pat, '05b'): binary digits, most significant first, zero-padded to
\* at least 5 characters
Format05b(pat) ==
    LET d == BinDigits(pat)
    IN  IF Len(d) >= 5 THEN d ELSE [i \in 1..(5 - Len(d)) |-> 0] \o d

\* for i, bit in enumerate(reversed(bits)): if bit == '0': circ.x(clk[i])
RECURSIVE XPassFrom(_, _)
XPassFrom(rbits, i) ==
    IF i >= Len(rbits) THEN <<>>
    ELSE (IF rbits[i + 1] = 0 THEN <<X(clk(i))>> ELSE <<>>)
         \o XPassFrom(rbits, i + 1)

XPassNotReversed(pat) == XPassFrom(Format05b(pat), 0)
XPass(pat) == XPassFrom(Reverse(Format05b(pat)), 0)

\* body of `for pat, lam in phase_to_lambda.items()`
RotEntry(pat, lam) == XPass(pat) \o <<MCRY(lam, anc(0))>> \o XPass(pat)

Rotations(table) ==
    Flatten([n \in 1..Len(table) |-> RotEntry(table[n][1], table[n][2])])

(***************************************************************************)
(* SpecRot: the eigenvalue-inversion loop of hhl on a basis state of the   *)
(* clock register.  X and mcry map basis states of the clock to basis      *)
(* states: X flips its qubit, and mcry(theta, clk, anc[0]) rotates the     *)
(* ancilla exactly when every qubit of clk is 1.                           *)
(***************************************************************************)
BasisClock(c, ins) ==
    IF ins.g = "x" THEN FlipBit(c, ins.a - clk(0)) ELSE c

McryActs(c, ins) == ins.g = "mcry" /\ c = ClockDim - 1

RotBuild ==
    /\ pc = "rot_build"
    /\ qc' = qc \o <<Barrier("Rot-start")>> \o Rotations(phase_to_lambda)
                \o <<Barrier("Rot-end")>>
    /\ pc' = "rot_run"
    /\ UNCHANGED <<vProj, vArt, vSetup, phase_to_lambda, stage_log, qc_nom, err,
                   vSim, vRot, vExt>>

RotStep ==
    /\ pc = "rot_run"
    /\ ip < Len(qc)
    /\ clkval' = BasisClock(clkval, qc[ip + 1])
    /\ fired' = IF McryActs(clkval, qc[ip + 1])
                THEN Append(fired, qc[ip + 1].m) ELSE fired
    /\ ip' = ip + 1
    /\ UNCHANGED <<pc, vProj, vArt, vSetup, vCirc, psi, hcnt, rdiv, sysreg, clk_in, vExt>>

RotDone ==
    /\ pc = "rot_run"
    /\ ip = Len(qc)
    /\ pc' = "rot_done"
    /\ UNCHANGED <<vProj, vArt, vSetup, vCirc, vSim, vRot, vExt>>

InitRot ==
    /\ pc = "rot_build"
    /\ IdleProj /\ IdleArt /\ IdleSetup /\ IdleCirc /\ IdleExt
    /\ phase_to_lambda = DefaultTable
    /\ clk_in \in ClockVals
    /\ clkval = clk_in
    /\ fired = <<>>
    /\ psi = Idle /\ hcnt = 0 /\ rdiv = 1 /\ sysreg = Idle /\ ip = 0

NextRot == RotBuild \/ RotStep \/ RotDone

SpecRot == InitRot /\ [][NextRot]_vars

(***************************************************************************)
(* HHL setup cell.                                                         *)
(***************************************************************************)
Eye4 == [i \in Pix |-> [j \in Pix |-> IF i = j THEN 1 ELSE 0]]
MatT(M)      == [i \in Pix |-> [j \in Pix |-> M[j][i]]]
MatAdd(M, N) == [i \in Pix |-> [j \in Pix |-> M[i][j] + N[i][j]]]
MatMul(M, N) ==
    [i \in Pix |-> [j \in Pix |->
        M[i][1] * N[1][j] + M[i][2] * N[2][j] + M[i][3] * N[3][j] + M[i][4] * N[4][j]]]
MatVec(M, v) ==
    [i \in Pix |-> M[i][1] * v[1] + M[i][2] * v[2] + M[i][3] * v[3] + M[i][4] * v[4]]

\* A_herm = A4.T @ A4 + np.eye(4)
BuildA_hermNoShift(A) == MatMul(MatT(A), A)
BuildA_herm(A) == MatAdd(MatMul(MatT(A), A), Eye4)

\* b_herm = A4.T @ b4
Buildb_herm(A, b) == MatVec(MatT(A), b)

\* b_norm = b_herm / np.linalg.norm(b_herm).  The quotient of a numpy array
\* by a numpy float 0.0 is an array of NaN (with a RuntimeWarning), not an
\* exception.  Otherwise the value is v / sqrt(n2), kept in that form.
Norm2(v) == v[1] * v[1] + v[2] * v[2] + v[3] * v[3] + v[4] * v[4]
Normalise(v) ==
    IF Norm2(v) = 0
    THEN [set |-> TRUE, nan |-> TRUE,  v |-> v, n2 |-> 0]
    ELSE [set |-> TRUE, nan |-> FALSE, v |-> v, n2 |-> Norm2(v)]

\* np.linalg.eigvals(A_herm).real, for a matrix whose characteristic
\* polynomial splits over the integers (A_herm of the notebook): the roots
\* of det(M - x*I), with multiplicity, in ascending order.  The roots of a
\* symmetric matrix lie within its largest absolute row sum.
Det3(M) ==
      M[1][1] * (M[2][2] * M[3][3] - M[2][3] * M[3][2])
    - M[1][2] * (M[2][1] * M[3][3] - M[2][3] * M[3][1])
    + M[1][3] * (M[2][1] * M[3][2] - M[2][2] * M[3][1])
Minor1(M, j) ==
    LET cols == SelectSeq(<<1, 2, 3, 4>>, LAMBDA c : c # j)
    IN  [r \in 1..3 |-> [c \in 1..3 |-> M[r + 1][cols[c]]]]
Det4(M) ==
      M[1][1] * Det3(Minor1(M, 1)) - M[1][2] * Det3(Minor1(M, 2))
    + M[1][3] * Det3(Minor1(M, 3)) - M[1][4] * Det3(Minor1(M, 4))
CharPoly(M, x) == Det4([i \in Pix |-> [j \in Pix |-> M[i][j] - (IF i = j THEN x ELSE 0)]])

RowSum(M, i) == Abs(M[i][1]) + Abs(M[i][2]) + Abs(M[i][3]) + Abs(M[i][4])
SpectralBound(M) ==
    CHOOSE r \in {RowSum(M, i) : i \in Pix} : \A i \in Pix : RowSum(M, i) <= r

Eigvals(M) ==
    LET R == {x \in (-SpectralBound(M))..SpectralBound(M) : CharPoly(M, x) = 0}
    IN  CHOOSE s \in [Pix -> R] :
            /\ \A i \in 1..3 : s[i] <= s[i + 1]
            /\ \A x \in 0..4 :
                  CharPoly(M, x) = (s[1] - x) * (s[2] - x) * (s[3] - x) * (s[4] - x)

\* max(np.linalg.eigvals(A_herm).real)
LambdaMax(M) == Eigvals(M)[4]

\* expm(1j * A_herm * t0) through the spectral decomposition of A_herm:
\* P_lam = prod over the eigenvalues mu # lam of (A_herm - mu*I) / (lam - mu),
\* held as scale * P_lam with scale the least common multiple of the
\* denominators
MatScale(M, n) == [i \in Pix |-> [j \in Pix |-> n * M[i][j]]]
RECURSIVE ProdShift(_, _)
ProdShift(A, S) ==
    IF S = {} THEN Eye4
    ELSE LET mu == CHOOSE m \in S : TRUE
         IN  MatMul(MatAdd(A, MatScale(Eye4, -mu)), ProdShift(A, S \ {mu}))
RECURSIVE ProdDiff(_, _)
ProdDiff(lam, S) ==
    IF S = {} THEN 1
    ELSE LET mu == CHOOSE m \in S : TRUE
         IN  (lam - mu) * ProdDiff(lam, S \ {mu})
ProjDen(lam, L) == ProdDiff(lam, L \ {lam})
RECURSIVE LcmDen(_, _)
LcmDen(S, L) ==
    IF S = {} THEN 1
    ELSE LET lam == CHOOSE m \in S : TRUE
             r   == LcmDen(S \ {lam}, L)
             d   == Abs(ProjDen(lam, L))
         IN  (r * d) \div GCD(r, d)
ProjTimes(A, lam, L) ==
    MatScale(ProdShift(A, L \ {lam}),
             (IF ProjDen(lam, L) < 0 THEN -1 ELSE 1)
               * (LcmDen(L, L) \div Abs(ProjDen(lam, L))))
BuildExpm(A) ==
    LET L == {Eigvals(A)[i] : i \in Pix}
    IN  [scale |-> LcmDen(L, L), proj |-> [lam \in L |-> ProjTimes(A, lam, L)]]

SetupHermitian ==
    /\ pc = "art_done"
    /\ A_herm' = BuildA_herm(A4)
    /\ b_herm' = Buildb_herm(A4, b4)
    /\ b_norm' = Normalise(b_herm')
    /\ pc' = "setup_t0"
    /\ UNCHANGED <<vProj, vArt, lam_max, U_ops, expmA, vCirc, vSim, vRot, vExt>>

SetupTimeScale ==
    /\ pc = "setup_t0"
    /\ lam_max' = LambdaMax(A_herm)
    /\ pc' = "setup_U"
    /\ UNCHANGED <<vProj, vArt, A_herm, b_herm, b_norm, U_ops, expmA, vCirc, vSim, vRot, vExt>>

SetupUnitaries ==
    /\ pc = "setup_U"
    /\ U_ops' = BuildU_ops
    /\ expmA' = BuildExpm(A_herm)
    /\ pc' = "build"
    /\ UNCHANGED <<vProj, vArt, A_herm, b_herm, b_norm, lam_max, vCirc, vSim, vRot, vExt>>

(***************************************************************************)
(* Circuit-build cell and hhl(circ).  pc names the statement of hhl about  *)
(* to run; the statements run in the order HhlOrder.                       *)
(***************************************************************************)
HhlOrderRotLast ==
    <<"STATE_PREP", "PHASE_ESTIMATE", "INV_PHASE_ESTIMATE", "EIGENVALUE_INVERT",
      "MEASURE">>
HhlOrder ==
    <<"STATE_PREP", "PHASE_ESTIMATE", "EIGENVALUE_INVERT", "INV_PHASE_ESTIMATE",
      "MEASURE">>

\* what runs after statement st of hhl: the next statement, or the return to
\* the cell that called hhl
HhlNext(st) ==
    LET n == CHOOSE k \in 1..Len(HhlOrder) : HhlOrder[k] = st
    IN  IF n < Len(HhlOrder) THEN HhlOrder[n + 1] ELSE "measure_sys"

\* qc.barrier(label="Start"); hhl(qc)
CircuitStart ==
    /\ pc = "build"
    /\ qc' = qc \o <<Barrier("Start")>>
    /\ pc' = HhlOrder[1]
    /\ UNCHANGED <<vProj, vArt, vSetup, phase_to_lambda, stage_log, qc_nom, err,
                   vSim, vRot, vExt>>

\* circ.barrier(label="HHL-init"); circ.initialize(b_norm, sysq).
\* initialize rejects a vector whose squared amplitudes do not sum to 1
\* (QiskitError); a vector of NaN is one.
StatePrep ==
    /\ pc = "STATE_PREP"
    /\ IF b_norm.nan
       THEN /\ qc' = qc \o <<Barrier("HHL-init")>>
            /\ err' = "QiskitError"
            /\ pc' = "error"
            /\ UNCHANGED stage_log
       ELSE /\ qc' = qc \o <<Barrier("HHL-init"), Initialize>>
            /\ stage_log' = Append(stage_log, "STATE_PREP")
            /\ pc' = HhlNext("STATE_PREP")
            /\ UNCHANGED err
    /\ UNCHANGED <<vProj, vArt, vSetup, phase_to_lambda, qc_nom, vSim, vRot, vExt>>

\* qpe(circ)
PhaseEstimate ==
    /\ pc = "PHASE_ESTIMATE"
    /\ qc' = qc \o qpe(U_ops)
    /\ stage_log' = Append(stage_log, "PHASE_ESTIMATE")
    /\ pc' = HhlNext("PHASE_ESTIMATE")
    /\ UNCHANGED <<vProj, vArt, vSetup, phase_to_lambda, qc_nom, err, vSim, vRot, vExt>>

\* the loop over phase_to_lambda, between the barriers Rot-start and Rot-end
EigenvalueInvert ==
    /\ pc = "EIGENVALUE_INVERT"
    /\ qc' = qc \o <<Barrier("Rot-start")>> \o Rotations(phase_to_lambda)
                \o <<Barrier("Rot-end")>>
    /\ stage_log' = Append(stage_log, "EIGENVALUE_INVERT")
    /\ pc' = HhlNext("EIGENVALUE_INVERT")
    /\ UNCHANGED <<vProj, vArt, vSetup, phase_to_lambda, qc_nom, err, vSim, vRot, vExt>>

\* inv_qpe(circ)
InvPhaseEstimate ==
    /\ pc = "INV_PHASE_ESTIMATE"
    /\ qc' = qc \o inv_qpe(U_ops)
    /\ stage_log' = Append(stage_log, "INV_PHASE_ESTIMATE")
    /\ pc' = HhlNext("INV_PHASE_ESTIMATE")
    /\ UNCHANGED <<vProj, vArt, vSetup, phase_to_lambda, qc_nom, err, vSim, vRot, vExt>>

\* circ.measure(anc, creg[0]); circ.barrier(label="HHL-complete")
MeasureAnc ==
    /\ pc = "MEASURE"
    /\ qc' = qc \o <<Measure(anc(0), creg(0)), Barrier("HHL-complete")>>
    /\ stage_log' = Append(stage_log, "MEASURE")
    /\ pc' = HhlNext("MEASURE")
    /\ UNCHANGED <<vProj, vArt, vSetup, phase_to_lambda, qc_nom, err, vSim, vRot, vExt>>

\* qc.measure(sysq[0], creg[1]); qc.measure(sysq[1], creg[2]); qc.barrier("End")
MeasureSys ==
    /\ pc = "measure_sys"
    /\ qc' = qc \o <<Measure(sysq(0), creg(1)), Measure(sysq(1), creg(2)),
                     Barrier("End")>>
    /\ pc' = "postselect"
    /\ UNCHANGED <<vProj, vArt, vSetup, phase_to_lambda, stage_log, qc_nom, err,
                   vSim, vRot, vExt>>

\* postselect cell, first statement: qc_nom = qc.remove_final_measurements();
\* the simulation starts from |0...0>
PostselectCell ==
    /\ pc = "postselect"
    /\ qc_nom' = RemoveFinalMeasurements(qc)
    /\ stage_log' = Append(stage_log, "POSTSELECT_EXTRACT")
    /\ psi' = StartState(0)
    /\ hcnt' = 0 /\ rdiv' = 1 /\ ip' = 0 /\ sysreg' = "zero"
    /\ pc' = "simulate"
    /\ UNCHANGED <<vProj, vArt, vSetup, phase_to_lambda, qc, err, clk_in, vRot, vExt>>

(***************************************************************************)
(* Postselect cell.  state.data is indexed by the basis state: qubit q is  *)
(* bit q of the index.                                                     *)
(*                                                                         *)
(* U = expm(1j * A_herm * t0) is made explicit here through the spectral   *)
(* decomposition of A_herm: U^e = sum over the eigenvalues lam of          *)
(* z^(lam * e) * P_lam, z = exp(2j*pi / lam_max), P_lam the projector on   *)
(* the eigenspace of lam.  An amplitude of state.data is an element of     *)
(* Z[w, sqrt(3), z], held by its nonzero integer coordinates on the basis  *)
(* z^j * sqrt(3)^h * w^i (j < lam_max - 1, h < 2, i < 16), coordinate      *)
(* j * 32 + h * 16 + i; lam_max is prime, so 1 + z + ... + z^(lam_max-1)   *)
(* = 0 is the only relation and the coordinates are unique.  The           *)
(* amplitudes are held up to one positive scale factor,                    *)
(* 2^(hcnt/2) * rdiv * expmA.scale * norm(b_herm), which the cell divides  *)
(* out (vec / norm, then vec / vec[0].real).                               *)
(***************************************************************************)
NQubits  == 1 + NClk + NSys
StateDim == 2^NQubits
StateIdx == 0..(StateDim - 1)

RECURSIVE ISum(_, _)
ISum(S, f) ==
    IF S = {} THEN 0
    ELSE LET n == CHOOSE k \in S : TRUE
         IN  f[n] + ISum(S \ {n}, f)

Sparse(f)  == [q \in {q2 \in DOMAIN f : f[q2] # 0} |-> f[q]]
SZero      == [q \in {} |-> 0]
SInt(n)    == IF n = 0 THEN SZero ELSE [q \in {0} |-> n]
SAt(x, q)  == IF q \in DOMAIN x THEN x[q] ELSE 0
SAdd(x, y) == Sparse([q \in (DOMAIN x) \cup (DOMAIN y) |-> SAt(x, q) + SAt(y, q)])

\* the order of z: lam_max of the notebook's A_herm
ZOrd == LambdaMax(BuildA_herm(BuildA4(RefAngles)))
BIdx == 0..((ZOrd - 1) * 2 * NW - 1)
\* coordinate j of z^m
ZetaCoord(m, j) ==
    IF m % ZOrd = ZOrd - 1 THEN -1 ELSE IF m % ZOrd = j THEN 1 ELSE 0

\* the vector circ.initialize put in the system register (sysq[0] the low
\* bit of its index), up to norm(b_herm)
SysVec == IF sysreg = "b_norm" THEN b_norm.v ELSE <<1, 0, 0, 0>>

\* state = Statevector.from_instruction(qc_nom), read off psi: the amplitude
\* of |a>|c>|sy> is the sum over e of psi[<<a, e>>][c] times entry sy of
\* U^e |SysVec>, and U^e = sum over lam of z^(lam * e) * P_lam
RowDot(r, v) == r[1] * v[1] + r[2] * v[2] + r[3] * v[3] + r[4] * v[4]

StatevectorOf(s) ==
    [n \in StateIdx |->
        LET a  == Bit(n, anc(0))
            c  == (n \div 2^clk(0)) % ClockDim
            sy == n \div 2^sysq(0)
            D  == {d \in DOMAIN s : d[1] = a}
            L  == DOMAIN expmA.proj
        IN  Sparse([q \in BIdx |->
                ISum(D, [d \in D |->
                    IF s[d][c][q % (2 * NW)] = 0 THEN 0
                    ELSE s[d][c][q % (2 * NW)]
                         * ISum(L, [lam \in L |->
                               ZetaCoord(lam * d[2], q \div (2 * NW))
                               * RowDot(expmA.proj[lam][sy + 1], SysVec)])])])]

Snapshot ==
    /\ pc = "simulate"
    /\ ip = Len(qc_nom)
    /\ state' = StatevectorOf(psi)
    /\ pc' = "extract"
    /\ UNCHANGED <<vProj, vArt, vSetup, vCirc, vSim, vRot,
                   sys_amps, vec, hhl_recon>>

\* tensor = state.data.reshape([2]*8): row-major, so axis k of tensor is
\* bit NQubits-1-k of the index
AxisIndex(n, k) == (n \div 2^(NQubits - 1 - k)) % 2

\* tensor[1].sum(axis=(0,1,2,3,4)): tensor[1] fixes axis 0 of tensor at 1,
\* the sum runs over the next five axes (1..5 of tensor), and the entry
\* [i][j] of the result is indexed by the two axes left (6 and 7 of tensor)
PostselectSources(i, j) ==
    {n \in StateIdx :
        /\ AxisIndex(n, 0) = 1
        /\ AxisIndex(n, NQubits - 2) = i
        /\ AxisIndex(n, NQubits - 1) = j}

SumOver(S, f) ==
    Sparse([q \in UNION {DOMAIN f[n] : n \in S} |->
               ISum(S, [n \in S |-> SAt(f[n], q)])])

PostselectSum ==
    /\ pc = "extract"
    /\ sys_amps' = [i \in 0..1 |-> [j \in 0..1 |->
                        SumOver(PostselectSources(i, j), state)]]
    /\ pc' = "normalise"
    /\ UNCHANGED <<vProj, vArt, vSetup, vCirc, vSim, vRot, state, vec, hhl_recon>>

(***************************************************************************)
(* The real part of an amplitude, as a number.  2*Re(x) = x + conj(x) is   *)
(* exact; its value is the sum of its coordinates times the cosines of     *)
(* the basis elements, cos(2*pi*k/160) and sqrt(3)*cos(2*pi*k/160), which  *)
(* are tabulated to 18 decimals (three groups of 6 digits, the first with  *)
(* the integer part; k = 0..40), finer than the float64 of the code.  The  *)
(* sum is an integer of up to BigLen decimal digits.  A float of the       *)
(* result is held as (q[1] / q[2]) * 10^e: a quotient of two sums is the   *)
(* rational of the 9 leading digits of each, rounded, with the difference  *)
(* of their decimal exponents, so its relative error is below 2 * 10^-8    *)
(* whatever the sizes of the two.                                          *)
(***************************************************************************)
\* conj(z^j * sqrt(3)^h * w^i) = z^(-j) * sqrt(3)^h * w^(-i), w^(-i) = -w^(16-i)
Conj(x) ==
    Sparse([q \in BIdx |->
        LET j  == q \div (2 * NW)
            h  == (q % (2 * NW)) \div NW
            i  == (NW - (q % NW)) % NW
            sw == IF i = 0 THEN 1 ELSE -1
        IN  ISum(0..(ZOrd - 2),
                 [j0 \in 0..(ZOrd - 2) |->
                     sw * ZetaCoord(ZOrd - j0, j) * SAt(x, j0 * 2 * NW + h * NW + i)])])
Re2(x) == SAdd(x, Conj(x))

CosTab ==
    <<
       <<1000000, 0, 0>>, <<999229, 36240, 722935>>, <<996917, 333733, 127976>>,
       <<993068, 456954, 926296>>, <<987688, 340595, 137726>>, <<980785, 280403, 230449>>,
       <<972369, 920397, 676602>>, <<962455, 236453, 647288>>, <<951056, 516295, 153572>>,
       <<938191, 335922, 484134>>, <<923879, 532511, 286756>>, <<908143, 173825, 81299>>,
       <<891006, 524188, 367862>>, <<872496, 7072, 797115>>, <<852640, 164354, 92222>>,
       <<831469, 612302, 545237>>, <<809016, 994374, 947424>>, <<785316, 930880, 744927>>,
       <<760405, 965600, 30938>>, <<734322, 509435, 685536>>, <<707106, 781186, 547524>>,
       <<678800, 745532, 941741>>, <<649448, 48330, 183656>>, <<619093, 949309, 833987>>,
       <<587785, 252292, 473129>>, <<555570, 233019, 602225>>, <<522498, 564715, 948865>>,
       <<488621, 241496, 954947>>, <<453990, 499739, 546792>>, <<418659, 737537, 428087>>,
       <<382683, 432365, 89772>>, <<346117, 57077, 492976>>, <<309016, 994374, 947424>>,
       <<271440, 449865, 74253>>, <<233445, 363855, 905412>>, <<195090, 322016, 128268>>,
       <<156434, 465040, 230869>>, <<117537, 397457, 837644>>, <<78459, 95727, 844945>>,
       <<39259, 815759, 68609>>, <<0, 0, 0>>
    >>
CosTab3 ==
    <<
       <<1732050, 807568, 877294>>, <<1730715, 459167, 15115>>, <<1726711, 472971, 876268>>,
       <<1720045, 22839, 958949>>, <<1710726, 387954, 172629>>, <<1698769, 936974, 83061>>,
       <<1684194, 105880, 480688>>, <<1667021, 369548, 434533>>, <<1647278, 207092, 663852>>,
       <<1624995, 61038, 662483>>, <<1600206, 290382, 531051>>, <<1572950, 117611, 895372>>,
       <<1543268, 569769, 600956>>, <<1511207, 413651, 59117>>, <<1476816, 85235, 165695>>,
       <<1440147, 613457, 604789>>, <<1401258, 538444, 73545>>, <<1360208, 824329, 506443>>,
       <<1317061, 766797, 725513>>, <<1271883, 895484, 83648>>, <<1224744, 871391, 589049>>,
       <<1175717, 379478, 687719>>, <<1124877, 16584, 325851>>, <<1072302, 174863, 103540>>,
       <<1018073, 920910, 254367>>, <<962275, 870762, 831371>>, <<904994, 60969, 838527>>,
       <<846316, 815930, 108234>>, <<786334, 611702, 480197>>, <<725139, 936498, 276529>>,
       <<662827, 148071, 183573>>, <<599492, 328224, 434906>>, <<535233, 134659, 634898>>,
       <<470148, 650395, 661210>>, <<404339, 230989, 831367>>, <<337906, 349796, 907288>>,
       <<270952, 441504, 537179>>, <<203580, 744186, 391797>>, <<135895, 140116, 537687>>,
       <<67999, 995590, 500120>>, <<0, 0, 0>>
    >>

TabDigits == 19
BigLen == 32
\* digit m of the table entry for coordinate q, with the sign of the cosine
CosDigit(q, m) ==
    LET j  == q \div (2 * NW)
        h  == (q % (2 * NW)) \div NW
        i  == q % NW
        k  == (ZOrd * i + 2 * NW * j) % (2 * NW * ZOrd)
        k2 == IF k > NW * ZOrd THEN 2 * NW * ZOrd - k ELSE k
        neg == 2 * k2 > NW * ZOrd
        k3 == IF neg THEN NW * ZOrd - k2 ELSE k2
        t  == IF h = 0 THEN CosTab[k3 + 1] ELSE CosTab3[k3 + 1]
        d  == IF m < 6 THEN (t[3] \div 10^m) % 10
              ELSE IF m < 12 THEN (t[2] \div 10^(m - 6)) % 10
              ELSE (t[1] \div 10^(m - 12)) % 10
    IN  IF neg THEN -d ELSE d

\* carry propagation: digits 0..9 below the top digit, which keeps the sign
RECURSIVE Carry(_, _, _)
Carry(R, m, carry) ==
    IF m = BigLen - 1 THEN <<R[m] + carry>>
    ELSE <<(R[m] + carry) % 10>> \o Carry(R, m + 1, (R[m] + carry) \div 10)
BigNorm(R) == LET s == Carry(R, 0, 0) IN [m \in 0..(BigLen - 1) |-> s[m + 1]]

\* 10^18 * value of the real amplitude r
BigVal(r) ==
    BigNorm([m \in 0..(BigLen - 1) |->
        IF m < TabDigits
        THEN ISum(DOMAIN r, [q \in DOMAIN r |-> r[q] * CosDigit(q, m)])
        ELSE 0])

BigNeg(b) == b[BigLen - 1] < 0
BigAbs(b) == IF BigNeg(b) THEN BigNorm([m \in 0..(BigLen - 1) |-> -b[m]]) ELSE b
BigDigits(b) ==
    LET N == {m \in 0..(BigLen - 1) : b[m] # 0}
    IN  IF N = {} THEN 0 ELSE 1 + CHOOSE m \in N : \A m2 \in N : m2 <= m
\* floor(b / 10^sh), b >= 0 of at most sh + 9 digits
BigTop(b, sh) ==
    LET M == {m \in sh..(BigLen - 1) : b[m] # 0}
    IN  ISum(M, [m \in M |-> b[m] * 10^(m - sh)])
\* b >= 0 as m * 10^e, m its 9 leading digits rounded to nearest
BigLead(b) ==
    LET nd == BigDigits(b)
        sh == IF nd > 9 THEN nd - 9 ELSE 0
        up == IF sh > 0 /\ b[sh - 1] >= 5 THEN 1 ELSE 0
    IN  [m |-> BigTop(b, sh) + up, e |-> sh]

\* a float of the result: (q[1] / q[2]) * 10^e, or one of nan, inf, -inf
Num(q, e) == [k |-> "num", q |-> q, e |-> e]
NaN    == [k |-> "nan", q |-> <<0, 1>>, e |-> 0]
PosInf == [k |-> "inf", q |-> <<0, 1>>, e |-> 0]
NegInf == [k |-> "-inf", q |-> <<0, 1>>, e |-> 0]

\* bx / by for the values bx, by of two real amplitudes.  A value under the
\* resolution of the tables (10^-18) is the float 0.0: x / 0.0 is inf, -inf
\* or nan.
Quotient(bx, by) ==
    LET x == BigLead(BigAbs(bx))
        y == BigLead(BigAbs(by))
        sg == IF BigNeg(bx) = BigNeg(by) THEN 1 ELSE -1
    IN  IF y.m = 0
        THEN (IF x.m = 0 THEN NaN ELSE IF BigNeg(bx) THEN NegInf ELSE PosInf)
        ELSE IF x.m = 0 THEN Num(<<0, 1>>, 0)
        ELSE Num(RNorm(sg * x.m, y.m), x.e - y.e)

\* vec = sys_amps.flatten(); vec /= np.linalg.norm(vec).  0/0 is NaN in
\* numpy (RuntimeWarning), not an exception.  A nonzero vec keeps its
\* direction; its (positive) scale is not tracked.  vec holds the entries
\* (v), twice their real parts (re) and the values of those (val).
FlattenAmps(a) == [e \in 0..3 |-> a[e \div 2][e % 2]]

NormaliseVec ==
    /\ pc = "normalise"
    /\ LET v == FlattenAmps(sys_amps)
       IN  vec' = [nan |-> \A e \in 0..3 : v[e] = SZero,
                   v   |-> v,
                   re  |-> [e \in 0..3 |-> Re2(v[e])],
                   val |-> [e \in 0..3 |-> BigVal(Re2(v[e]))]]
    /\ pc' = "phase_fix"
    /\ UNCHANGED <<vProj, vArt, vSetup, vCirc, vSim, vRot,
                   state, sys_amps, hhl_recon>>

\* vec *= (1.0 / vec[0].real), real parts: 1.0 / np.float64(0.0) is inf, and
\* the product of inf with a positive, negative, zero real part is inf,
\* -inf, nan
Rescaled(w) ==
    [e \in 0..3 |->
        IF w.nan THEN NaN
        ELSE IF w.re[0] = SZero
             THEN (IF w.re[e] = SZero THEN NaN
                   ELSE IF BigNeg(w.val[e]) THEN NegInf ELSE PosInf)
             ELSE Quotient(w.val[e], w.val[0])]

PhaseFix ==
    /\ pc = "phase_fix"
    /\ vec' = [nan |-> vec.nan, v |-> vec.v, re |-> vec.re, val |-> vec.val,
                r |-> Rescaled(vec)]
    /\ pc' = "reorder"
    /\ UNCHANGED <<vProj, vArt, vSetup, vCirc, vSim, vRot,
                   state, sys_amps, hhl_recon>>

\* x_qhl = vec[[3,1,2,0]].reshape(2,2); hhl_recon = np.real(x_qhl)
ReorderPerm == <<3, 1, 2, 0>>

Reorder ==
    /\ pc = "reorder"
    /\ hhl_recon' =
          [set |-> TRUE,
           val |-> [i \in 0..1 |-> [j \in 0..1 |->
                       vec.r[ReorderPerm[2 * i + j + 1]]]]]
    /\ pc' = "done"
    /\ UNCHANGED <<vProj, vArt, vSetup, vCirc, vSim, vRot,
                   state, sys_amps, vec>>

(***************************************************************************)
(* Spec: the notebook as written, cell by cell.                            *)
(***************************************************************************)
SimPhantoms == {RefPhantom, <<1, 0, 0, 0>>, <<0, 2, 1, 0>>, <<0, 0, 0, 0>>}

Init ==
    /\ pc = "projection"
    /\ phantom2 \in SimPhantoms
    /\ angles = RefAngles
    /\ A4 = Idle /\ b4 = Idle
    /\ IdleArt /\ IdleSetup /\ IdleCirc /\ IdleSim /\ IdleRot /\ IdleExt
    /\ phase_to_lambda = DefaultTable

Next ==
    \/ ProjectionCell \/ ArtStart \/ ArtRow \/ ArtFinish
    \/ SetupHermitian \/ SetupTimeScale \/ SetupUnitaries
    \/ CircuitStart \/ StatePrep \/ PhaseEstimate \/ EigenvalueInvert
    \/ InvPhaseEstimate \/ MeasureAnc \/ MeasureSys \/ PostselectCell
    \/ SimStep \/ Snapshot
    \/ PostselectSum \/ NormaliseVec \/ PhaseFix \/ Reorder

Spec == Init /\ [][Next]_vars

(***************************************************************************)
(* SpecQPE: qpe(circ) then inv_qpe(circ) on a fresh circuit, with the      *)
(* U_ops the setup cell builds for the notebook's angles, simulated from   *)
(* every basis state of the clock register.  psi holds the system          *)
(* register by the power of U applied to it, whatever its content.         *)
(***************************************************************************)
AppendQpe ==
    /\ pc = "call_qpe"
    /\ qc' = qc \o qpe(U_ops)
    /\ pc' = "call_inv_qpe"
    /\ UNCHANGED <<vProj, vArt, vSetup, phase_to_lambda, stage_log, qc_nom, err,
                   vSim, vRot, vExt>>

AppendInvQpe ==
    /\ pc = "call_inv_qpe"
    /\ qc' = qc \o inv_qpe(U_ops)
    /\ qc_nom' = RemoveFinalMeasurements(qc')
    /\ pc' = "simulate"
    /\ UNCHANGED <<vProj, vArt, vSetup, phase_to_lambda, stage_log, err,
                   vSim, vRot, vExt>>

InitQPE ==
    /\ pc = "call_qpe"
    /\ phantom2 = RefPhantom
    /\ angles = RefAngles
    /\ A4 = BuildA4(angles) /\ b4 = Buildb4(angles, phantom2)
    /\ IdleArt
    /\ A_herm = BuildA_herm(A4)
    /\ b_herm = Buildb_herm(A4, b4)
    /\ b_norm = Normalise(b_herm)
    /\ lam_max = LambdaMax(A_herm)
    /\ U_ops = BuildU_ops
    /\ expmA = BuildExpm(A_herm)
    /\ IdleCirc /\ IdleRot /\ IdleExt
    /\ phase_to_lambda = Idle
    /\ clk_in \in ClockVals
    /\ psi = StartState(clk_in)
    /\ hcnt = 0 /\ rdiv = 1 /\ ip = 0 /\ sysreg = "zero"

NextQPE == AppendQpe \/ AppendInvQpe \/ SimStep \/ SimDone

SpecQPE == InitQPE /\ [][NextQPE]_vars

(***************************************************************************)
(* SpecExtract: the postselect cell applied to basis states of the eight   *)
(* qubits.                                                                 *)
(***************************************************************************)
BasisState(k) == [n \in StateIdx |-> SInt(IF n = k THEN 1 ELSE 0)]

InitExtract ==
    /\ pc = "extract"
    /\ IdleProj /\ IdleArt /\ IdleSetup /\ IdleCirc /\ IdleSim /\ IdleRot
    /\ phase_to_lambda = Idle
    /\ state \in {BasisState(k) : k \in StateIdx}
    /\ sys_amps = Idle /\ vec = Idle /\ hhl_recon = NoRecon

NextExtract == PostselectSum \/ NormaliseVec \/ PhaseFix \/ Reorder

SpecExtract == InitExtract /\ [][NextExtract]_vars

(***************************************************************************)
(* Claims about the Fourier transforms (SpecQFT).                          *)
(***************************************************************************)
Gates(circ) == SelectSeq(circ, LAMBDA ins : ins.g # "barrier")
NegatePhase(ins) == IF ins.g = "cp" THEN CP(-ins.m, ins.a, ins.b) ELSE ins
NSwaps == NClk \div 2

\* the gate list the claim describes for qft: the bit-reversal swaps, then
\* for j ascending a Hadamard on clk[j] followed by a controlled phase
\* pi/2^(k-j) from every clk[k], k > j
IsQftGateList(G) ==
    LET R == SubSeq(G, NSwaps + 1, Len(G))
        posH(j) == CHOOSE n \in 1..Len(R) : R[n] = H(clk(j))
    IN  /\ \A i \in 1..NSwaps :
              G[i].g = "swap" /\ {G[i].a, G[i].b} = {clk(i - 1), clk(NClk - i)}
        /\ Len(R) = NClk + (NClk * (NClk - 1)) \div 2
        /\ \A j \in 0..(NClk - 1) : \E n \in 1..Len(R) : R[n] = H(clk(j))
        /\ \A j \in 0..(NClk - 2) : posH(j) < posH(j + 1)
        /\ \A j \in 0..(NClk - 1) : \A k \in (j + 1)..(NClk - 1) :
              \E n \in 1..Len(R) :
                  /\ R[n] = CP(PiOver2Pow(k - j), clk(k), clk(j))
                  /\ posH(j) < n
                  /\ j < NClk - 1 => n < posH(j + 1)

\* C6: qft_dg is the exact inverse of qft over the 5 clock qubits.  Its gate
\* list is the gate list of qft (swaps, then H and controlled phases for j
\* ascending) reversed with every phase angle negated and the bit-reversal
\* swaps applied last, and qft followed by qft_dg returns every clock basis
\* state (hence, by linearity, every clock state) unchanged.
C6_QftDgInvertsQft ==
    pc \in {"simulate", "simulated"} =>
        LET All == Gates(qc)
            G   == SubSeq(All, 1, Len(Gates(qft)))
            D   == SubSeq(All, Len(Gates(qft)) + 1, Len(All))
            R   == SubSeq(G, NSwaps + 1, Len(G))
        IN  /\ Len(All) = 2 * Len(G)
            /\ IsQftGateList(G)
            /\ SubSeq(D, 1, Len(D) - NSwaps)
                 = Reverse([n \in 1..Len(R) |-> NegatePhase(R[n])])
            /\ SubSeq(D, Len(D) - NSwaps + 1, Len(D)) = SubSeq(G, 1, NSwaps)
            /\ pc = "simulated" =>
                 /\ hcnt = 2 * NClk
                 /\ psi = [d \in {<<0, 0>>} |->
                             [c \in ClockVals |->
                                 IF c = clk_in THEN AInt(2^NClk) ELSE AZero]]

\* a round trip completed from a basis state that both transforms change
C6_Witness ==
    /\ pc = "simulated"
    /\ clk_in = 19
    /\ ip = Len(qc_nom)
    /\ Len(Gates(qc_nom)) = 34
    /\ hcnt = 10
    /\ psi[<<0, 0>>][19] = AInt(32)

(***************************************************************************)
(* Claims about the eigenvalue-inversion loop (SpecRot).                   *)
(***************************************************************************)
\* number of X gates in one pass of the entry with pattern pat
ZeroBits(pat) == Cardinality({i \in 0..(NClk - 1) : Bit(pat, i) = 0})
EntryLen(pat) == 2 * ZeroBits(pat) + 1

RECURSIVE EntryStart(_, _)
\* index in qc of the last instruction before entry n (the barrier is first)
EntryStart(table, n) ==
    IF n = 1 THEN 1
    ELSE EntryStart(table, n - 1) + EntryLen(table[n - 1][1])

\* C4: eigenvalue inversion is an exact-match lookup.  For every entry
\* (pat, lam) and every clock basis value c, the entry's mcry acts on the
\* ancilla iff c = pat, and after the entry's second X pass the clock holds
\* c again; so a value matching no entry leaves the ancilla untouched and no
\* value triggers more than one rotation.
C4_ExactMatchLookup ==
    pc \in {"rot_run", "rot_done"} =>
        /\ \A n \in 1..Len(phase_to_lambda) :
              LET pat   == phase_to_lambda[n][1]
                  lam   == phase_to_lambda[n][2]
                  start == EntryStart(phase_to_lambda, n)
                  atRy  == start + ZeroBits(pat)
                  end   == start + EntryLen(pat)
                  acted == \E k \in 1..Len(fired) : fired[k] = lam
              IN  /\ ip = atRy =>
                       /\ qc[ip + 1] = MCRY(lam, anc(0))
                       /\ (clkval = ClockDim - 1) <=> (clk_in = pat)
                  /\ ip > atRy => (acted <=> clk_in = pat)
                  /\ ip <= atRy => ~acted
                  /\ ip = end => clkval = clk_in
        /\ Len(fired) <= 1
        /\ pc = "rot_done" =>
              /\ clkval = clk_in
              /\ (\A n \in 1..Len(phase_to_lambda) :
                     phase_to_lambda[n][1] # clk_in) => fired = <<>>

\* the clock value of the second entry, after the whole loop has run
C4_Witness ==
    /\ pc = "rot_done"
    /\ clk_in = 19
    /\ fired = <<3>>
    /\ clkval = 19
    /\ Len(qc) = 25

(***************************************************************************)
(* Claims about the pipeline (Spec).                                       *)
(***************************************************************************)
IsPrefix(s, t) == Len(s) <= Len(t) /\ s = SubSeq(t, 1, Len(s))

\* the stages the claim lists, in its order
ClaimedStages ==
    <<"STATE_PREP", "PHASE_ESTIMATE", "EIGENVALUE_INVERT", "INV_PHASE_ESTIMATE",
      "MEASURE", "POSTSELECT_EXTRACT">>

\* the gates of each of the first five stages, as the claim describes them
ClaimedGates(st) ==
    CASE st = "STATE_PREP" -> <<Initialize>>
      [] st = "PHASE_ESTIMATE" ->
               [i \in 1..NClk |-> H(clk(i - 1))]
            \o [i \in 1..NClk |-> CU(2^(i - 1), clk(i - 1))]
            \o Gates(qft_dg)
      [] st = "EIGENVALUE_INVERT" -> Rotations(phase_to_lambda)
      [] st = "INV_PHASE_ESTIMATE" -> Gates(inv_qpe(BuildU_ops))
      [] st = "MEASURE" -> <<Measure(anc(0), creg(0))>>
      [] st = "POSTSELECT_EXTRACT" -> <<>>

RECURSIVE ClaimedUpTo(_)
ClaimedUpTo(n) ==
    IF n = 0 THEN <<>> ELSE ClaimedUpTo(n - 1) \o ClaimedGates(ClaimedStages[n])

\* the gates of qc that belong to the pipeline (the measurements of the
\* system qubits are appended by the calling cell after hhl returns)
PipelineGates ==
    SelectSeq(Gates(qc),
              LAMBDA ins : ~(ins.g = "measure" /\ ins.a \in {sysq(0), sysq(1)}))

\* C7: a run passes through state preparation, phase estimation, eigenvalue
\* inversion, inverse phase estimation, measurement of the ancilla and then
\* postselection, in this order, each exactly once; after each stage the
\* circuit holds exactly the gates of the stages run so far, in stage order.
C7_StagesInOrder ==
    /\ IsPrefix(stage_log, ClaimedStages)
    /\ pc # "error" => PipelineGates = ClaimedUpTo(Len(stage_log))
    /\ pc = "simulate" =>
          /\ stage_log = ClaimedStages
          /\ qc_nom = RemoveFinalMeasurements(qc)
          /\ Gates(qc_nom) = ClaimedUpTo(4)

C7_Witness ==
    /\ pc = "simulate"
    /\ phantom2 = RefPhantom
    /\ stage_log = ClaimedStages
    /\ Len(Gates(qc)) = 1 + 27 + 23 + 22 + 3
    /\ qc[Len(qc) - 4] = Measure(anc(0), creg(0))

\* C8 (as claimed): if b_h = A^T b is the zero vector, building the
\* Hermitian system fails with a division-by-zero error at the normalisation:
\* no b_norm value is produced, and nothing is passed on to the construction
\* of the unitaries or to state preparation.
AfterNormalise ==
    pc \notin {"projection", "art", "art_loop", "art_done"}

C8_ZeroVectorSurfaced ==
    (AfterNormalise /\ Norm2(b_herm) = 0) =>
        /\ pc = "error"
        /\ err = "ZeroDivisionError"
        /\ ~b_norm.set
        /\ U_ops = <<>>
        /\ qc = <<>>

\* C10: the phase table agrees with the spectrum of the reference system:
\* the eigenvalues of A_herm = A4^T A4 + I are exactly the lam of the table
\* (1, 3, 5; lambda_max = 5); each pattern is the integer nearest to
\* 32*lam/lambda_max modulo 32, read with clk[0] as least significant bit;
\* every lam is at least 1.
TableLams == {phase_to_lambda[n][2] : n \in 1..Len(phase_to_lambda)}

C10_TableMatchesSpectrum ==
    lam_max # 0 =>
        /\ {Eigvals(A_herm)[i] : i \in Pix} = TableLams
        /\ \A x \in -1..7 : (CharPoly(A_herm, x) = 0) <=> (x \in TableLams)
        /\ TableLams = {1, 3, 5}
        /\ lam_max = 5
        /\ \A n \in 1..Len(phase_to_lambda) :
              LET pat == phase_to_lambda[n][1]
                  lam == phase_to_lambda[n][2]
              IN  /\ lam >= 1
                  /\ pat \in ClockVals
                  /\ \E q \in 0..ClockDim :
                        /\ q % ClockDim = pat
                        /\ 2 * Abs(q * lam_max - ClockDim * lam) < lam_max
                  /\ {ins.a : ins \in {XPass(pat)[k] : k \in 1..Len(XPass(pat))}}
                        = {clk(i) : i \in {j \in 0..(NClk - 1) : Bit(pat, j) = 0}}
        /\ phase_to_lambda = << <<6, 1>>, <<19, 3>>, <<0, 5>> >>

C10_Witness ==
    /\ pc = "INV_PHASE_ESTIMATE"
    /\ phantom2 = RefPhantom
    /\ lam_max = 5
    /\ Eigvals(A_herm) = <<1, 3, 3, 5>>
    /\ \E n \in 1..Len(qc) : qc[n] = MCRY(3, anc(0))

(***************************************************************************)
(* Claims about inverse phase estimation and extraction (SpecQPE,          *)
(* SpecExtract).                                                           *)
(***************************************************************************)
InverseIns(ins) ==
    CASE ins.g = "cp" -> CP(-ins.m, ins.a, ins.b)
      [] ins.g = "cu" -> CU(-ins.m, ins.a)
      [] OTHER -> ins

\* a gate list with its swaps made anonymous (swaps of disjoint pairs commute)
SwapsHidden(G) ==
    [n \in 1..Len(G) |-> IF G[n].g = "swap" THEN Swap(0, 0) ELSE G[n]]
SwapSet(G) == {G[n] : n \in {k \in 1..Len(G) : G[k].g = "swap"}}

\* C5 (as claimed): inv_qpe applies QFT and then the inverse of U_k
\* controlled on clk[k] for k = 4 down to 0, its gates are the inverses of
\* all gates of qpe in reverse order, and qpe followed directly by inv_qpe
\* returns the clock register to |0...0> with the system register unchanged
\* (no power of U left on it).
C5_InvQpeUncomputesQpe ==
    (pc = "simulated" /\ clk_in = 0) =>
        LET Q  == Gates(qpe(U_ops))
            IQ == Gates(inv_qpe(U_ops))
            RQ == Reverse([n \in 1..Len(Q) |-> InverseIns(Q[n])])
        IN  /\ IQ = Gates(qft) \o [i \in 1..NClk |-> CU(-(2^(NClk - i)), clk(NClk - i))]
            /\ SwapsHidden(IQ) = SwapsHidden(RQ)
            /\ SwapSet(IQ) = SwapSet(RQ)
            /\ DOMAIN psi = {<<0, 0>>}
            /\ \A c \in ClockVals : c # 0 => psi[<<0, 0>>][c] = AZero
            /\ psi[<<0, 0>>][0] # AZero

\* C3 (as claimed): when no rotation has reached the ancilla, so that the
\* ancilla=1 subspace of the statevector has zero norm, extraction ends in
\* a FailedPostselection error: no reconstructed vector is returned.
AncillaOneEmpty == \A n \in StateIdx : Bit(n, anc(0)) = 1 => state[n] = SZero

C3_FailedPostselectionRaised ==
    (pc = "done" /\ AncillaOneEmpty) =>
        /\ err = "FailedPostselection"
        /\ ~hhl_recon.set

\* C2 (as claimed): every entry of sys_amps is the sum of exactly the 32
\* amplitudes whose ancilla bit is 1 and whose two system bits are that
\* entry's index, one per clock basis state.
ClaimedSources(e) ==
    {n \in StateIdx : Bit(n, anc(0)) = 1 /\ n \div 2^sysq(0) = e}

C2_PostselectsAncillaOne ==
    pc \in {"normalise", "phase_fix", "reorder", "done"} =>
        \A e \in 0..3 :
            /\ Cardinality(ClaimedSources(e)) = ClockDim
            /\ FlattenAmps(sys_amps)[e] = SumOver(ClaimedSources(e), state)

(***************************************************************************)
(* Claims about the ART solver (SpecART).                                  *)
(***************************************************************************)
RefScenario == phantom2 = RefPhantom /\ angles = RefAngles

Consistent(A, b, x) ==
    \A i \in 1..4 : DotIR(A[i], x) = RInt(b[i])

\* C1: in the reference scenario (phantom [[1,2],[3,4]], angles 0 and 90,
\* x_art from zero, relaxation 1.0) the ART result after 10 full sweeps over
\* rows 0..3 equals the phantom values, row-major, to within 1e-6.
C1_ArtReproducesPhantom ==
    (RefScenario /\ pc = "art_done") =>
        /\ sweep = 10
        /\ \A j \in Pix :
              RLess(RAbs(RSub(x_art[j], RInt(RefPhantom[j]))), <<1, 10^6>>)
        /\ art_recon = << <<x_art[1], x_art[2]>>, <<x_art[3], x_art[4]>> >>

C1_Witness ==
    /\ RefScenario
    /\ pc = "art_done"
    /\ A4 = << <<1, 0, 1, 0>>, <<0, 1, 0, 1>>, <<1, 1, 0, 0>>, <<0, 0, 1, 1>> >>
    /\ b4 = <<4, 6, 3, 7>>
    /\ x_art = <<RInt(1), RInt(2), RInt(3), RInt(4)>>

\* C9: ART is idempotent beyond convergence.  Once x_art satisfies
\* a_i . x = b_i for every row, no later row step changes x_art; a row with
\* zero norm or zero residual changes nothing; and in the reference scenario
\* x_art no longer changes once sweep 1 is complete (so it is the same
\* vector after each of sweeps 1 through 10).
C9_ArtIdempotent ==
    [][ pc = "art_loop" =>
          /\ Consistent(A4, b4, x_art) => x_art' = x_art
          /\ (sweep < iters /\
                (\/ DotII(A4[row + 1], A4[row + 1]) = 0
                 \/ DotIR(A4[row + 1], x_art) = RInt(b4[row + 1])))
               => x_art' = x_art
          /\ (RefScenario /\ sweep >= 1) => x_art' = x_art ]_vars

C9_Witness ==
    /\ RefScenario
    /\ pc = "art_loop"
    /\ sweep = 3 /\ row = 2
    /\ Consistent(A4, b4, x_art)
    /\ x_art = <<RInt(1), RInt(2), RInt(3), RInt(4)>>

====
